---- MODULE Spec2Model ----
(***************************************************************************)
(* A model of the openFTP client: FTPService (src/ftp_service.py), the     *)
(* listing parser inside FTPService.list_directory, and the threads that   *)
(* FTPClientGUI (src/gui.py) starts around the service.                    *)
(*                                                                         *)
(* Three specifications share the module:                                  *)
(*   Spec      - one caller invoking the FTPService methods one after the  *)
(*               other; every method call is one action, the server's      *)
(*               replies and transport failures are its inputs.            *)
(*   SpecGui   - the Tk main thread and the worker threads of              *)
(*               FTPClientGUI, interleaved at every control-channel        *)
(*               send and receive.                                         *)
(*   SpecParse - the pure listing parser applied to bounded listings.      *)
(*                                                                         *)
(* Text is a sequence of character codes (ASCII), so that str.lower,       *)
(* str.split, str.startswith and the ordering of sorted() are computed on  *)
(* characters as Python computes them.                                     *)
(***************************************************************************)
EXTENDS Integers, Sequences, FiniteSets, TLC

VARIABLES
    ftp,        \* FTPService.ftp: 0 is None, h > 0 is the FTP object h
    conn,       \* per FTP object: socket state and unanswered commands
    nextConn,   \* the next FTP object to be constructed
    last,       \* Spec: the method call that has just returned
    prev,       \* Spec: the method call before it
    lines,      \* SpecParse: raw lines handed to the ftp.dir callback
    result,     \* SpecParse: what the parsing loop produced
    parsePc,    \* SpecParse: "input" before the loop, "done" after it
    thr,        \* SpecGui: the worker threads started by FTPClientGUI
    ui,         \* SpecGui: where the Tk main thread is
    queue,      \* SpecGui: callbacks scheduled with master.after(0, ...)
    status,     \* SpecGui: status label and button show "connected"
    remoteTree, \* SpecGui: kinds of the items shown in remote_tree
    lastWriter, \* SpecGui: the thread that last changed presentation state
    localFs,    \* the local files the transfers read and write, by path
    remoteFs,   \* the object named remote_name in the server's directory
    nav,        \* SpecNav: the remote view of FTPClientGUI on one session
    navCalc,    \* SpecPath: a current remote path, an entry name, new paths
    local       \* SpecLocal: populate_local_tree and the local view

(***************************************************************************)
(* Bounds of the model.                                                    *)
(***************************************************************************)
MaxLines == 3
MaxConn == 2
MaxThreads == 2
MaxQueue == 1
MaxBytes == 2

(***************************************************************************)
(* Text helpers: Python's str operations on ASCII character codes.         *)
(***************************************************************************)

\* str.isspace for the ASCII range, as used by str.split() without argument
IsSpace(c) == c \in {9, 10, 11, 12, 13, 28, 29, 30, 31, 32}

\* str.lower on one ASCII character
LowerChar(c) == IF c >= 65 /\ c <= 90 THEN c + 32 ELSE c

\* str.lower
str_lower(s) == [i \in 1..Len(s) |-> LowerChar(s[i])]

\* Python's < on str: lexicographic by code point, a proper prefix is smaller
RECURSIVE StrLess(_, _)
StrLess(a, b) ==
    IF b = <<>> THEN FALSE
    ELSE IF a = <<>> THEN TRUE
    ELSE IF a[1] < b[1] THEN TRUE
    ELSE IF a[1] > b[1] THEN FALSE
    ELSE StrLess(Tail(a), Tail(b))

\* str.split() without argument: runs of whitespace separate, no empty tokens
RECURSIVE SplitFrom(_, _, _, _)
SplitFrom(s, i, cur, acc) ==
    IF i > Len(s)
    THEN (IF cur = <<>> THEN acc ELSE Append(acc, cur))
    ELSE IF IsSpace(s[i])
    THEN SplitFrom(s, i + 1, <<>>, IF cur = <<>> THEN acc ELSE Append(acc, cur))
    ELSE SplitFrom(s, i + 1, Append(cur, s[i]), acc)

str_split(s) == SplitFrom(s, 1, <<>>, <<>>)

\* " ".join(parts)
RECURSIVE JoinSpace(_)
JoinSpace(parts) ==
    IF parts = <<>> THEN <<>>
    ELSE IF Len(parts) = 1 THEN parts[1]
    ELSE parts[1] \o <<32>> \o JoinSpace(Tail(parts))

\* line.startswith('d')
StartsWithD(line) == Len(line) >= 1 /\ line[1] = 100

(***************************************************************************)
(* sorted(lines, key=str.lower): a stable sort of the raw lines by their   *)
(* lower-cased text.                                                       *)
(***************************************************************************)
RECURSIVE InsertByKey(_, _)
InsertByKey(x, s) ==
    IF s = <<>> THEN <<x>>
    ELSE IF StrLess(str_lower(x), str_lower(s[1])) THEN <<x>> \o s
    ELSE <<s[1]>> \o InsertByKey(x, Tail(s))

RECURSIVE SortedByLower(_)
SortedByLower(ls) ==
    IF ls = <<>> THEN <<>>
    ELSE InsertByKey(ls[Len(ls)], SortedByLower(SubSeq(ls, 1, Len(ls) - 1)))

\* the order in which the loop of list_directory visits the lines
SortOrder(ls) == SortedByLower(ls)

(***************************************************************************)
(* The loop body of FTPService.list_directory.                             *)
(***************************************************************************)
\* The mutant of Accepts: the token check is off by one (len(parts) < 8).
AcceptsOffByOne(parts) == Len(parts) >= 8

\* `if len(parts) < 9: continue`
Accepts(parts) == Len(parts) >= 9

\* parts[4] raises IndexError when the line has fewer than 5 tokens
SizeRaises(line, parts) == ~StartsWithD(line) /\ Len(parts) < 5

\* The mutant of SizeOf: the size column is kept for every line.
SizeOfEveryLine(line, parts) == parts[5]

\* `size = parts[4] if not is_dir else ""`
SizeOf(line, parts) == IF ~StartsWithD(line) THEN parts[5] ELSE <<>>

\* the dict appended for an accepted line
Entry(line, parts) ==
    [name   |-> JoinSpace(SubSeq(parts, 9, Len(parts))),
     type   |-> IF StartsWithD(line) THEN "Directorio" ELSE "Archivo",
     size   |-> SizeOf(line, parts),
     is_dir |-> StartsWithD(line)]

\* the for loop over the ordered lines; exc names the exception that ended it
RECURSIVE ParseLoop(_, _)
ParseLoop(ls, items) ==
    IF ls = <<>> THEN [items |-> items, exc |-> "none"]
    ELSE LET line == ls[1]
             parts == str_split(line)
         IN  IF ~Accepts(parts) THEN ParseLoop(Tail(ls), items)
             ELSE IF SizeRaises(line, parts)
             THEN [items |-> items, exc |-> "IndexError"]
             ELSE ParseLoop(Tail(ls), Append(items, Entry(line, parts)))

\* lines 26-36 of list_directory: sort the raw lines, then run the loop
ParseListing(ls) == ParseLoop(SortOrder(ls), <<>>)

(***************************************************************************)
(* Bounded listings: Unix-style lines "perm 2 u g 7 J 1 0 name", with and  *)
(* without a leading blank, a name with a blank in it, one line whose      *)
(* fields are separated by a tab and by two blanks, and lines that are no  *)
(* entries ("total 8", an 8-token line, the empty line).                   *)
(***************************************************************************)
MkLine(lead, perm, name) ==
    lead \o perm \o <<32, 50, 32, 117, 32, 103, 32, 55, 32, 74, 32, 49, 32, 48, 32>> \o name

EntryLines ==
    { MkLine(lead, perm, name) :
        lead \in {<<>>, <<32>>},
        perm \in {<<100>>, <<45>>},
        name \in {<<97>>, <<66>>, <<99, 32, 100>>} }
    \cup { <<45, 9, 50, 32, 32, 117, 32, 103, 32, 55, 32, 74, 32, 49, 32, 48, 32, 101>> }

NonEntryLines ==
    { <<116, 111, 116, 97, 108, 32, 56>>,
      <<45, 32, 50, 32, 117, 32, 103, 32, 55, 32, 74, 32, 49, 32, 48>>,
      <<>> }

LineSet == EntryLines \cup NonEntryLines

Listings == UNION { [1..n -> LineSet] : n \in 0..MaxLines }


(***************************************************************************)
(* The session: FTPService and the FTP objects it constructs.              *)
(*                                                                         *)
(* conn[h].st  "unused": FTP object h not constructed yet                  *)
(*             "open":   its control socket is connected                   *)
(*             "dead":   the socket is still held but the peer is gone or  *)
(*                       the transport has failed: every exchange fails    *)
(*             "closed": the socket was closed (FTP.close, or the object   *)
(*                       was released and its socket finalised)            *)
(*             "nosock": the object was constructed with an empty host:    *)
(*                       FTP.__init__ has not connected, its sock is None  *)
(* conn[h].out  commands written on the control channel whose reply has    *)
(*              not been read yet                                          *)
(* conn[h].auth login has succeeded on this FTP object                     *)
(* conn[h].early (history) a command other than USER and PASS was written  *)
(*              on it before login had succeeded                           *)
(***************************************************************************)
Handles == 1..MaxConn

parseVars == <<lines, result, parsePc>>
guiVars == <<thr, ui, queue, status, remoteTree, lastWriter>>
fileVars == <<localFs, remoteFs>>
viewVars == <<nav, navCalc, local>>

(***************************************************************************)
(* Files.  A file is [exists, data]: data is its byte sequence.  localFs   *)
(* maps the local paths to files; remoteFs is the one remote object the    *)
(* transfers name.  Transfers are binary (storbinary / retrbinary): the    *)
(* bytes go through unchanged, block by block, so a transfer that fails    *)
(* has moved some prefix of them.                                          *)
(***************************************************************************)
Bytes == {0, 1}

Contents == UNION { [1..n -> Bytes] : n \in 0..MaxBytes }

LocalPaths == {"L1", "L2"}

NoFile == [exists |-> FALSE, data |-> <<>>]

Files == {NoFile} \cup { [exists |-> TRUE, data |-> c] : c \in Contents }

\* open(local_path, 'rb') succeeds: the file is there and may be read
OpenRb(f, permitted) == permitted /\ f.exists

\* The mutant of OpenWb: the target is opened without being truncated.
OpenWbKeeps(f) == [exists |-> TRUE, data |-> f.data]

\* open(local_path, 'wb'): the target is created, or truncated to nothing
OpenWb(f) == [exists |-> TRUE, data |-> <<>>]

\* The mutant of Received: the block in flight is lost with the stream.
ReceivedButLast(data, n) == SubSeq(data, 1, IF n > 0 THEN n - 1 ELSE 0)

\* the first n bytes of a stream: what has arrived when n bytes were moved
Received(data, n) == SubSeq(data, 1, n)

\* f.write(block) for every block received, on the file as opened
Written(f, blocks) == [exists |-> TRUE, data |-> f.data \o blocks]

\* The mutant of SentBeforeOpenFails: the command is written first.
SentBeforeOpenFailsCmd(cmd) == <<cmd>>

\* what a transfer has written on the control channel when open() raises:
\* `with open(...)` encloses the storbinary / retrbinary call
SentBeforeOpenFails(cmd) == <<>>

NoCall ==
    [op |-> "none", pre |-> FALSE, preAuth |-> FALSE, exc |-> "none",
     sent |-> <<>>, post |-> FALSE, ret |-> "none",
     host |-> "none", path |-> "none", moved |-> 0, before |-> NoFile,
     remote |-> NoFile]

\* a closed socket: nothing is outstanding on it and nobody is logged in
Closed == [st |-> "closed", out |-> 0, auth |-> FALSE, early |-> FALSE]

\* FTPService.is_connected
is_connected == ftp # 0

\* An FTP object that neither the service nor a running call refers to is
\* released; releasing it finalises (closes) its socket without a QUIT.
Collect(c, owner, held) ==
    [h \in Handles |->
        IF \/ c[h].st = "closed"
           \/ (c[h].st \in {"open", "dead", "nosock"} /\ h # owner /\ h \notin held)
        THEN Closed
        ELSE c[h]]

\* the record of a returned call: pre and post are is_connected before and
\* after it, preAuth whether it started on a logged-in session; connect
\* records its host, a transfer its local path, the file at that path and the remote object as
\* they were before it, and the bytes it moved
Call(op, exc, sent, ret, ftpAfter) ==
    [op |-> op, pre |-> is_connected,
     preAuth |-> (ftp # 0 /\ conn[ftp].auth),
     exc |-> exc, sent |-> sent, post |-> (ftpAfter # 0), ret |-> ret,
     host |-> "none", path |-> "none", moved |-> 0, before |-> NoFile,
     remote |-> NoFile]

\* the exception ftplib raises for a negative reply or a lost transport
ExcOf(kind) == IF kind = "neg" THEN "error_perm" ELSE "EOFError"

\* the socket state after an exchange that ended `kind`
StAfter(kind) == IF kind = "eof" THEN "dead" ELSE "open"

(***************************************************************************)
(* FTPService.connect, one call.  FTP(host) opens the socket and reads the *)
(* greeting; only when it returns is self.ftp assigned.  login sends USER  *)
(* and, on an intermediate reply, PASS.                                    *)
(*   step "nohost":   host is the empty string: FTP.__init__ skips its     *)
(*                    `if host:` branch and returns an object that has no  *)
(*                    socket; login then raises AttributeError on          *)
(*                    self.sock.sendall before anything is written         *)
(*   step "open":     socket.create_connection raises                      *)
(*   step "greeting": the greeting is negative or the peer closes          *)
(*   step "USER" / "PASS": that command is answered negatively ("neg") or  *)
(*                    the transport fails ("eof")                          *)
(*   step "done":     kind "USER": USER answered 2xx, no PASS sent         *)
(*                    kind "PASS": USER 3xx, PASS 2xx                      *)
(***************************************************************************)
ConnectOutcomes ==
    {<<"nohost", "none">>, <<"open", "eof">>, <<"greeting", "neg">>, <<"greeting", "eof">>,
     <<"USER", "neg">>, <<"USER", "eof">>, <<"PASS", "neg">>, <<"PASS", "eof">>,
     <<"done", "USER">>, <<"done", "PASS">>}

\* The mutant of ConnectAssigns: self.ftp is assigned only when login raises.
ConnectAssignsOnFailure(step) == step \in {"nohost", "USER", "PASS"}

\* `self.ftp = FTP(...)` has run when the failure is in login or there is none
ConnectAssigns(step) == step \in {"nohost", "USER", "PASS", "done"}

\* the host argument of the call
HostOf(step) == IF step = "nohost" THEN "" ELSE "host"

FTPService_connect(step, kind) ==
    /\ <<step, kind>> \in ConnectOutcomes
    /\ IF step = "open"
       THEN /\ UNCHANGED <<ftp, conn, nextConn>>
            /\ last' = [Call("connect", "OSError", <<>>, "none", ftp)
                           EXCEPT !.host = HostOf(step)]
       ELSE /\ nextConn <= MaxConn
            /\ LET h == nextConn
                   f == IF ConnectAssigns(step) THEN h ELSE ftp
                   st == CASE step = "done" -> "open"
                           [] step = "nohost" -> "nosock"
                           [] OTHER -> StAfter(kind)
                   exc == CASE step = "done" -> "none"
                            [] step = "nohost" -> "AttributeError"
                            [] OTHER -> ExcOf(kind)
                   sent == CASE step \in {"nohost", "greeting"} -> <<>>
                             [] step = "USER" -> <<"USER">>
                             [] step = "PASS" -> <<"USER", "PASS">>
                             [] OTHER -> IF kind = "USER" THEN <<"USER">>
                                         ELSE <<"USER", "PASS">>
               IN  /\ ftp' = f
                   /\ conn' = Collect([conn EXCEPT ![h] = [st |-> st, out |-> 0,
                                                           auth |-> (step = "done"),
                                                           early |-> FALSE]],
                                      f, {})
                   /\ nextConn' = h + 1
                   /\ last' = [Call("connect", exc, sent,
                                    IF step = "done" THEN kind ELSE "none", f)
                                  EXCEPT !.host = HostOf(step)]
    /\ prev' = last
    /\ UNCHANGED <<parseVars, viewVars, guiVars, fileVars>>

(***************************************************************************)
(* FTPService.disconnect, one call: `if self.ftp: self.ftp.quit();         *)
(* self.ftp = None`.  FTP.quit sends QUIT and closes the socket only after *)
(* a positive reply; any other outcome raises out of quit().               *)
(***************************************************************************)
ExchangeKinds == {"ok", "neg", "eof"}

\* what an exchange on FTP object h can end as
Possible(h, kind) ==
    /\ kind \in ExchangeKinds
    /\ conn[h].st = "dead" => kind = "eof"

\* self.ftp is an FTP object that has a socket; on None, and on an object
\* whose sock is None, the first attribute access or sendall raises
\* AttributeError before anything is written
HasSocket == ftp # 0 /\ conn[ftp].st # "nosock"

\* `self.ftp = None` is reached only when quit() returned
DisconnectClears(kind) == kind = "ok"

FTPService_disconnect(kind) ==
    /\ IF ftp = 0
       THEN /\ kind = "ok"
            /\ UNCHANGED <<ftp, conn>>
            /\ last' = Call("disconnect", "none", <<>>, "none", 0)
       ELSE IF ~HasSocket
       THEN /\ kind = "ok"
            /\ UNCHANGED <<ftp, conn>>
            /\ last' = Call("disconnect", "AttributeError", <<>>, "none", ftp)
       ELSE /\ Possible(ftp, kind)
            /\ LET f == IF DisconnectClears(kind) THEN 0 ELSE ftp
                   c == [conn EXCEPT ![ftp].st =
                            IF kind = "ok" THEN "closed" ELSE StAfter(kind)]
               IN  /\ ftp' = f
                   /\ conn' = Collect(c, f, {})
                   /\ last' = Call("disconnect",
                                   IF kind = "ok" THEN "none" ELSE ExcOf(kind),
                                   <<"QUIT">>, "none", f)
    /\ prev' = last
    /\ UNCHANGED <<nextConn, parseVars, viewVars, guiVars, fileVars>>

(***************************************************************************)
(* FTPService.list_directory, one call: cwd, pwd and dir are three         *)
(* exchanges on self.ftp; the first one that fails raises out of the call. *)
(* On None, `self.ftp.cwd` raises AttributeError before anything is sent;  *)
(* so does the first sendall of an FTP object that has no socket.          *)
(***************************************************************************)
ListSteps == <<"CWD", "PWD", "LIST">>

\* the commands written up to and including exchange number n
SentUpTo(steps, n) == SubSeq(steps, 1, n)

\* a call made of the exchanges `steps` on self.ftp, failing at exchange
\* number `at` with `kind`, or running through when at = 0: what it does to
\* the session
Exchanges(steps, at, kind) ==
    IF ~HasSocket
    THEN /\ at = 0
         /\ kind = "ok"
         /\ UNCHANGED <<ftp, conn>>
    ELSE /\ at \in 0..Len(steps)
         /\ IF at = 0 THEN kind = "ok" ELSE kind \in {"neg", "eof"}
         /\ conn[ftp].st = "dead" => (at = 1 /\ kind = "eof")
         /\ UNCHANGED ftp
         /\ conn' = [conn EXCEPT ![ftp].st = StAfter(kind)]

\* the record of that call
ExchangesCall(op, steps, at, kind) ==
    IF ~HasSocket
    THEN Call(op, "AttributeError", <<>>, "none", ftp)
    ELSE Call(op,
              IF at = 0 THEN "none" ELSE ExcOf(kind),
              IF at = 0 THEN steps ELSE SentUpTo(steps, at),
              IF at = 0 THEN op ELSE "none",
              ftp)

RunExchanges(op, steps, at, kind) ==
    /\ Exchanges(steps, at, kind)
    /\ last' = ExchangesCall(op, steps, at, kind)

FTPService_list_directory(at, kind) ==
    /\ RunExchanges("list_directory", ListSteps, at, kind)
    /\ prev' = last
    /\ UNCHANGED <<nextConn, parseVars, viewVars, guiVars, fileVars>>

(***************************************************************************)
(* FTPService.upload_file / download_file, one call: the local file is     *)
(* opened first ('rb' / 'wb'); a failing open raises before self.ftp is    *)
(* looked at.  Then one STOR / RETR exchange on self.ftp, during which     *)
(* `moved` bytes go over the data connection.                              *)
(***************************************************************************)
Transfer(op, cmd, path, opens, at, kind, moved) ==
    IF ~opens
    THEN /\ at = 0
         /\ kind = "ok"
         /\ moved = 0
         /\ UNCHANGED <<ftp, conn>>
         /\ last' = [Call(op, "OSError", SentBeforeOpenFails(cmd), "none", ftp)
                        EXCEPT !.path = path, !.before = localFs[path],
                               !.remote = remoteFs]
    ELSE /\ Exchanges(<<cmd>>, at, kind)
         /\ last' = [ExchangesCall(op, <<cmd>>, at, kind)
                        EXCEPT !.path = path, !.moved = moved,
                               !.before = localFs[path], !.remote = remoteFs]

\* the command of the call reaches the server: there is a session and its
\* transport has not failed before the call
Reaches == ftp # 0 /\ conn[ftp].st = "open"

\* how many bytes of `data` a transfer can have moved when it ends
MovedOk(data, at, moved) ==
    IF ~Reaches THEN moved = 0
    ELSE IF at = 0 THEN moved = Len(data)
    ELSE moved \in 0..Len(data)

\* upload_file: storbinary reads the local file block by block and sends
\* it; the server stores what arrives under remote_name.  A STOR that is
\* refused before any data was moved leaves the remote object alone.
FTPService_upload_file(path, permitted, at, kind, moved) ==
    LET opens == OpenRb(localFs[path], permitted)
        src == localFs[path].data
    IN  /\ path \in LocalPaths
        /\ opens => MovedOk(src, at, moved)
        /\ Transfer("upload_file", "STOR", path, opens, at, kind, moved)
        /\ remoteFs' =
              IF opens /\ Reaches /\ (at = 0 \/ kind = "eof" \/ moved > 0)
              THEN Written(OpenWb(remoteFs), Received(src, moved))
              ELSE remoteFs
        /\ prev' = last
        /\ UNCHANGED <<localFs, nextConn, parseVars, viewVars, guiVars>>

\* download_file: open(local_path, 'wb') creates or truncates the target,
\* then retrbinary writes every block it receives to it.  RETR of an object
\* that is not there is refused.
FTPService_download_file(path, permitted, at, kind, moved) ==
    LET opens == permitted
        src == remoteFs.data
    IN  /\ path \in LocalPaths
        /\ opens => MovedOk(src, at, moved)
        /\ (opens /\ at = 0 /\ HasSocket) => remoteFs.exists
        /\ Transfer("download_file", "RETR", path, opens, at, kind, moved)
        /\ localFs' =
              IF opens
              THEN [localFs EXCEPT ![path] = Written(OpenWb(@), Received(src, moved))]
              ELSE localFs
        /\ prev' = last
        /\ UNCHANGED <<remoteFs, nextConn, parseVars, viewVars, guiVars>>

\* The environment: the peer closes the control connection of the session,
\* or the network drops it, while no call is running.
TransportFails ==
    /\ ftp # 0
    /\ conn[ftp].st = "open"
    /\ conn' = [conn EXCEPT ![ftp].st = "dead"]
    /\ UNCHANGED <<ftp, nextConn, last, prev, parseVars, viewVars, guiVars, fileVars>>

vars == <<ftp, conn, nextConn, last, prev, parseVars, guiVars, fileVars, viewVars>>

\* the files of a run in which every file is there and empty
InitFilesEmpty ==
    /\ localFs = [p \in LocalPaths |-> [exists |-> TRUE, data |-> <<>>]]
    /\ remoteFs = [exists |-> TRUE, data |-> <<>>]

\* FTPService.__init__: self.ftp = None
InitService ==
    /\ ftp = 0
    /\ conn = [h \in Handles |-> [st |-> "unused", out |-> 0, auth |-> FALSE,
                                early |-> FALSE]]
    /\ nextConn = 1

InitParseIdle ==
    /\ lines = <<>>
    /\ result = [items |-> <<>>, exc |-> "none"]
    /\ parsePc = "idle"

Threads == 1..MaxThreads

NoThread ==
    [kind |-> "idle", phase |-> "none", cmds |-> <<>>, h |-> 0, clean |-> FALSE]

UiIdle == [pc |-> "idle", h |-> 0]

\* FTPClientGUI.__init__ and _setup_ui: no worker, nothing scheduled, the
\* label reads "Desconectado", the remote tree is empty
InitGuiIdle ==
    /\ thr = [t \in Threads |-> NoThread]
    /\ ui = UiIdle
    /\ queue = <<>>
    /\ status = FALSE
    /\ remoteTree = {}
    /\ lastWriter = "ui"

\* the remote view, the path calculation and the local view at rest
NavNoWorker == [pc |-> "idle", op |-> "none", path |-> <<>>, got |-> <<>>]

NavNoAfter == [op |-> "none", requested |-> "none"]

NavIdle ==
    [build |-> "gui.py", cwd |-> <<47>>, current_remote_path |-> <<47>>,
     label |-> <<47>>, tree |-> {}, tclError |-> FALSE,
     w |-> [t \in Threads |-> NavNoWorker], q |-> <<>>, after |-> NavNoAfter]

CalcIdle == [start |-> <<47>>, path |-> <<47>>, clicks |-> <<>>]

\* os.path.expanduser("~")
get_user_home == "/home"

\* FTPClientGUI.__init__: current_local_path is the home directory, nothing
\* is listed yet
LocalIdle ==
    [pc |-> "idle", stack |-> <<>>, current_local_path |-> get_user_home,
     local_tree |-> {}, attempts |-> <<>>, errors |-> 0, requests |-> 0]

InitViewIdle ==
    /\ nav = NavIdle
    /\ navCalc = CalcIdle
    /\ local = LocalIdle

Init ==
    /\ InitService
    /\ last = NoCall
    /\ prev = NoCall
    /\ InitParseIdle
    /\ InitGuiIdle
    /\ InitViewIdle
    /\ InitFilesEmpty

Next ==
    \/ \E o \in ConnectOutcomes : FTPService_connect(o[1], o[2])
    \/ \E k \in ExchangeKinds : FTPService_disconnect(k)
    \/ \E at \in 0..3, k \in ExchangeKinds : FTPService_list_directory(at, k)
    \/ \E p \in LocalPaths, ok \in BOOLEAN, at \in 0..1, k \in ExchangeKinds,
          n \in 0..MaxBytes : FTPService_upload_file(p, ok, at, k, n)
    \/ \E p \in LocalPaths, ok \in BOOLEAN, at \in 0..1, k \in ExchangeKinds,
          n \in 0..MaxBytes : FTPService_download_file(p, ok, at, k, n)
    \/ TransportFails

Spec == Init /\ [][Next]_vars

(***************************************************************************)
(* SpecFiles: the transfers of one caller, who connects once to a server   *)
(* that accepts the login, on every local file "L1" of at most MaxBytes    *)
(* bytes.  Transfers are called before the connect as well as after it.    *)
(* At the start there is no local file "L2" and no remote object of the    *)
(* name; both come into being through the transfers.                       *)
(***************************************************************************)
InitFiles ==
    /\ InitService
    /\ last = NoCall
    /\ prev = NoCall
    /\ InitParseIdle
    /\ InitGuiIdle
    /\ InitViewIdle
    /\ localFs \in {[L1 |-> f, L2 |-> NoFile] : f \in Files}
    /\ remoteFs = NoFile

NextFiles ==
    \/ ~is_connected /\ \E k \in {"USER", "PASS"} : FTPService_connect("done", k)
    \/ \E p \in LocalPaths, ok \in BOOLEAN, at \in 0..1, k \in ExchangeKinds,
          n \in 0..MaxBytes : FTPService_upload_file(p, ok, at, k, n)
    \/ \E p \in LocalPaths, ok \in BOOLEAN, at \in 0..1, k \in ExchangeKinds,
          n \in 0..MaxBytes : FTPService_download_file(p, ok, at, k, n)
    \/ TransportFails

SpecFiles == InitFiles /\ [][NextFiles]_vars

(***************************************************************************)
(* SpecParse: the listing parser on every listing of at most MaxLines      *)
(* lines of LineSet.                                                       *)
(***************************************************************************)
InitParse ==
    /\ InitService
    /\ last = NoCall
    /\ prev = NoCall
    /\ lines \in Listings
    /\ result = [items |-> <<>>, exc |-> "none"]
    /\ parsePc = "input"
    /\ InitGuiIdle
    /\ InitViewIdle
    /\ InitFilesEmpty

\* lines 26-36 of list_directory applied to the lines the server sent
Parse ==
    /\ parsePc = "input"
    /\ result' = ParseListing(lines)
    /\ parsePc' = "done"
    /\ UNCHANGED <<ftp, conn, nextConn, last, prev, lines, guiVars, fileVars, viewVars>>

NextParse == Parse

SpecParse == InitParse /\ [][NextParse]_vars


(***************************************************************************)
(* SpecGui: FTPClientGUI around the service.  The Tk main thread runs the  *)
(* button handlers and the callbacks scheduled with master.after; every    *)
(* connect, listing, upload and download runs in a daemon thread of its    *)
(* own, and no lock guards FTPService or the FTP object.  A thread can be  *)
(* preempted wherever it blocks on the control socket, so every ftplib     *)
(* call is split into writing its command and reading its reply.  The      *)
(* commands ftplib adds around a transfer (TYPE, PASV) are folded into the *)
(* transfer's own exchange.                                                *)
(*                                                                         *)
(* thr[t].kind   "idle", or the worker: "connect" (do_connect),            *)
(*               "populate" (do_populate), "upload", "download"            *)
(* thr[t].phase  "open": before FTP(host); "send": before writing          *)
(*               Head(cmds); "recv": waiting for its reply                 *)
(* thr[t].h      the FTP object the running ftplib call was invoked on     *)
(* thr[t].clean  (history) when the worker was started, self.ftp was a     *)
(*               session on which login had succeeded before any other     *)
(*               command was written                                       *)
(* ui.pc         "idle", or "quit_recv": disconnect_ftp waits in quit()    *)
(* lastWriter    "ui" or "worker": the thread that made the latest change  *)
(*               of presentation state, which is the log widget (log), the *)
(*               trees, the labels and the button, and current_remote_path *)
(* messagebox.showerror callbacks change none of this state and are not    *)
(* queued.                                                                 *)
(***************************************************************************)

\* the ftplib exchanges of each worker, in order
Commands(kind) ==
    CASE kind = "connect"  -> <<"USER", "PASS">>
      [] kind = "populate" -> <<"CWD", "PWD", "LIST">>
      [] kind = "upload"   -> <<"STOR">>
      [] kind = "download" -> <<"RETR">>

\* the callback a worker schedules when its service call has returned
Callback(kind, items) ==
    CASE kind = "connect"  -> [cb |-> "update_ui_on_connect", items |-> {}]
      [] kind = "populate" -> [cb |-> "update_ui", items |-> items]
      [] kind = "upload"   -> [cb |-> "refresh_remote_view", items |-> {}]
      [] kind = "download" -> [cb |-> "populate_local_tree", items |-> {}]

\* the FTP objects that a running ftplib call still refers to
Held(th, u) == ({th[t].h : t \in Threads} \cup {u.h}) \ {0}

HasFreeThread == \E t \in Threads : thr[t].kind = "idle"

FreeThread ==
    CHOOSE t \in Threads :
        thr[t].kind = "idle" /\ \A u \in Threads : u < t => thr[u].kind # "idle"

\* threading.Thread(target=do_..., daemon=True).start()
Spawn(kind) ==
    [thr EXCEPT ![FreeThread] =
        [kind |-> kind,
         phase |-> IF kind = "connect" THEN "open" ELSE "send",
         cmds |-> Commands(kind),
         h |-> 0,
         clean |-> (ftp # 0 /\ conn[ftp].auth /\ ~conn[ftp].early)]]

\* populate_remote_tree: nothing when not connected; otherwise the tree is
\* cleared and do_populate is started
GUI_populate_remote_tree ==
    IF ~is_connected
    THEN UNCHANGED <<thr, remoteTree>>
    ELSE /\ HasFreeThread
         /\ remoteTree' = {}
         /\ thr' = Spawn("populate")

\* toggle_connection while not connected: connect_ftp.  An empty host entry
\* returns after the error box; otherwise do_connect is started.
GUI_connect_ftp(hostEmpty) ==
    /\ ui.pc = "idle"
    /\ ~is_connected
    /\ IF hostEmpty
       THEN UNCHANGED thr
       ELSE HasFreeThread /\ thr' = Spawn("connect")
    /\ UNCHANGED <<ftp, conn, nextConn, ui, queue, status, remoteTree, lastWriter>>
    /\ UNCHANGED <<last, prev, parseVars, viewVars, fileVars>>

\* the `finally` of disconnect_ftp
DisconnectedUi ==
    /\ status' = FALSE
    /\ remoteTree' = {}
    /\ lastWriter' = "ui"

\* toggle_connection while connected: disconnect_ftp on the main thread.
\* FTPService.disconnect writes QUIT and blocks in quit(); on a socket that
\* is already unusable quit() raises at once and disconnect_ftp logs it.
GUI_disconnect_ftp ==
    /\ ui.pc = "idle"
    /\ is_connected
    /\ IF conn[ftp].st = "open"
       THEN /\ conn' = [conn EXCEPT ![ftp].out = @ + 1,
                                     ![ftp].early = @ \/ ~conn[ftp].auth]
            /\ ui' = [pc |-> "quit_recv", h |-> ftp]
            /\ UNCHANGED <<status, remoteTree, lastWriter>>
       ELSE /\ DisconnectedUi
            /\ UNCHANGED <<conn, ui>>
    /\ UNCHANGED <<ftp, nextConn, thr, queue>>
    /\ UNCHANGED <<last, prev, parseVars, viewVars, fileVars>>

\* quit() reads its reply: on "ok" it closes the socket and disconnect()
\* sets self.ftp = None; otherwise it raises, which disconnect_ftp logs.
\* Then the `finally` of disconnect_ftp runs.
GUI_disconnect_reply(kind) ==
    /\ ui.pc = "quit_recv"
    /\ kind \in ExchangeKinds
    /\ conn[ui.h].st # "open" => kind = "eof"
    /\ LET h == ui.h
           f == IF kind = "ok" THEN 0 ELSE ftp
           c == CASE conn[h].st # "open" -> conn
                  [] kind = "ok"  -> [conn EXCEPT ![h].st = "closed", ![h].out = 0]
                  [] kind = "neg" -> [conn EXCEPT ![h].out = @ - 1]
                  [] OTHER        -> [conn EXCEPT ![h].st = "dead", ![h].out = 0]
       IN  /\ ftp' = f
           /\ conn' = Collect(c, f, Held(thr, UiIdle))
    /\ ui' = UiIdle
    /\ DisconnectedUi
    /\ UNCHANGED <<nextConn, thr, queue>>
    /\ UNCHANGED <<last, prev, parseVars, viewVars, fileVars>>

\* the "Refrescar" button: refresh_remote_view
GUI_refresh_remote_view ==
    /\ ui.pc = "idle"
    /\ is_connected
    /\ GUI_populate_remote_tree
    /\ lastWriter' = "ui"
    /\ UNCHANGED <<ftp, conn, nextConn, ui, queue, status>>
    /\ UNCHANGED <<last, prev, parseVars, viewVars, fileVars>>

\* on_double_click on a directory of the remote tree
GUI_on_double_click ==
    /\ ui.pc = "idle"
    /\ "dir" \in remoteTree
    /\ is_connected
    /\ GUI_populate_remote_tree
    /\ lastWriter' = "ui"
    /\ UNCHANGED <<ftp, conn, nextConn, ui, queue, status>>
    /\ UNCHANGED <<last, prev, parseVars, viewVars, fileVars>>

\* the upload button with a local file selected
GUI_upload_file ==
    /\ ui.pc = "idle"
    /\ is_connected
    /\ HasFreeThread
    /\ thr' = Spawn("upload")
    /\ UNCHANGED <<ftp, conn, nextConn, ui, queue, status, remoteTree, lastWriter>>
    /\ UNCHANGED <<last, prev, parseVars, viewVars, fileVars>>

\* the download button with a file of the remote tree selected
GUI_download_file ==
    /\ ui.pc = "idle"
    /\ "file" \in remoteTree
    /\ is_connected
    /\ HasFreeThread
    /\ thr' = Spawn("download")
    /\ UNCHANGED <<ftp, conn, nextConn, ui, queue, status, remoteTree, lastWriter>>
    /\ UNCHANGED <<last, prev, parseVars, viewVars, fileVars>>

\* the main loop runs the next callback scheduled with master.after
GUI_run_callback ==
    /\ ui.pc = "idle"
    /\ queue # <<>>
    /\ queue' = Tail(queue)
    /\ LET c == Head(queue)
       IN  CASE c.cb = "update_ui_on_connect" ->
                   /\ status' = TRUE
                   /\ lastWriter' = "ui"
                   /\ GUI_populate_remote_tree
             [] c.cb = "update_ui" ->
                   /\ remoteTree' = remoteTree \cup c.items
                   /\ lastWriter' = "ui"
                   /\ UNCHANGED <<status, thr>>
             [] c.cb = "refresh_remote_view" ->
                   /\ GUI_populate_remote_tree
                   /\ lastWriter' = IF is_connected THEN "ui" ELSE lastWriter
                   /\ UNCHANGED status
             [] OTHER ->
                   /\ lastWriter' = "ui"
                   /\ UNCHANGED <<status, thr, remoteTree>>
    /\ UNCHANGED <<ftp, conn, nextConn, ui>>
    /\ UNCHANGED <<last, prev, parseVars, viewVars, fileVars>>

\* a worker returns: its thread ends, and with `ok` its callback is queued
Finish(t, ok, items) ==
    /\ thr' = [thr EXCEPT ![t] = NoThread]
    /\ IF ok
       THEN /\ Len(queue) < MaxQueue
            /\ queue' = Append(queue, Callback(thr[t].kind, items))
       ELSE UNCHANGED queue

\* do_connect: self.log("Conectando a ..."), called by the worker, and then
\* `self.ftp = FTP(host, timeout=timeout)` of connect.  The constructor
\* opens the socket and reads the greeting; when it raises, nothing is
\* assigned and the half-built object is released.
Worker_open(t, ok) ==
    /\ thr[t].phase = "open"
    /\ IF ok
       THEN /\ nextConn <= MaxConn
            /\ ftp' = nextConn
            /\ nextConn' = nextConn + 1
            /\ thr' = [thr EXCEPT ![t].phase = "send"]
            /\ conn' = Collect([conn EXCEPT ![nextConn].st = "open"],
                               nextConn, Held(thr, ui))
            /\ UNCHANGED queue
       ELSE /\ Finish(t, FALSE, {})
            /\ UNCHANGED <<ftp, conn, nextConn>>
    /\ lastWriter' = "worker"
    /\ UNCHANGED <<ui, status, remoteTree>>
    /\ UNCHANGED <<last, prev, parseVars, viewVars, fileVars>>

\* upload_file / download_file: open(local_path, ...) raises; do_upload and
\* do_download call self.log before the service call and in their except
Worker_local_open_fails(t) ==
    /\ thr[t].kind \in {"upload", "download"}
    /\ thr[t].phase = "send"
    /\ Finish(t, FALSE, {})
    /\ lastWriter' = "worker"
    /\ UNCHANGED <<ftp, conn, nextConn, ui, status, remoteTree>>
    /\ UNCHANGED <<last, prev, parseVars, viewVars, fileVars>>

\* the FTP object the next command goes to: login keeps the object it was
\* called on; every other call evaluates self.ftp anew
Target(t) == IF thr[t].h # 0 THEN thr[t].h ELSE ftp

\* the local file of the transfers the GUI starts: the selected name in the
\* current local directory
GuiPath == "L1"

\* a worker writes its next command.  self.ftp being None (AttributeError)
\* or the socket being closed or broken raises instead.  A transfer has
\* opened its local file by then: download_file has created or truncated
\* the target.  do_upload and do_download call self.log before the service
\* call, and the except of every worker calls self.log.
Worker_send(t) ==
    /\ thr[t].phase = "send"
    /\ lastWriter' =
          IF \/ thr[t].kind \in {"upload", "download"}
             \/ Target(t) = 0
             \/ conn[Target(t)].st # "open"
          THEN "worker"
          ELSE lastWriter
    /\ thr[t].kind = "upload" => OpenRb(localFs[GuiPath], TRUE)
    /\ localFs' = IF thr[t].kind = "download"
                  THEN [localFs EXCEPT ![GuiPath] = OpenWb(@)]
                  ELSE localFs
    /\ LET f == Target(t)
       IN  IF f = 0 \/ conn[f].st # "open"
           THEN /\ Finish(t, FALSE, {})
                /\ conn' = Collect(conn, ftp, Held(thr', ui))
           ELSE /\ conn' = [conn EXCEPT
                                ![f].out = @ + 1,
                                ![f].early = @ \/ (thr[t].kind # "connect" /\ ~conn[f].auth)]
                /\ thr' = [thr EXCEPT ![t].phase = "recv", ![t].h = f]
                /\ UNCHANGED queue
    /\ UNCHANGED <<ftp, nextConn, ui, status, remoteTree>>
    /\ UNCHANGED <<last, prev, parseVars, viewVars, remoteFs>>

\* a worker reads the reply to its command.
\*   "ok":   positive; the call goes on with its next command or returns
\*   "done": USER answered 2xx, login returns without sending PASS
\*   "neg":  negative reply, ftplib raises
\*   "eof":  the transport failed or the socket was closed under the call
\* items: the kinds of entries of a listing that LIST returned
\* moved: the bytes a STOR or RETR has moved when its reply is read; an
\* upload stores them in the remote object, a download writes them to the
\* target it opened
\* When the call raises, the except of the worker calls self.log; when it
\* returns, do_populate assigns self.current_remote_path and do_upload and
\* do_download call self.log, all before the callback is scheduled.
Worker_recv(t, kind, items, moved) ==
    /\ thr[t].phase = "recv"
    /\ lastWriter' =
          IF \/ kind \in {"neg", "eof"}
             \/ (kind = "ok" /\ Len(thr[t].cmds) = 1 /\ thr[t].kind # "connect")
          THEN "worker"
          ELSE lastWriter
    /\ kind \in ExchangeKinds \cup {"done"}
    /\ kind = "done" => (thr[t].kind = "connect" /\ Head(thr[t].cmds) = "USER")
    /\ conn[thr[t].h].st # "open" => kind = "eof"
    /\ items # {} => (kind = "ok" /\ Head(thr[t].cmds) = "LIST")
    /\ LET src == IF thr[t].kind = "upload" THEN localFs[GuiPath].data
                  ELSE IF thr[t].kind = "download" THEN remoteFs.data
                  ELSE <<>>
       IN  /\ IF conn[thr[t].h].st # "open" THEN moved = 0
              ELSE IF kind = "ok" THEN moved = Len(src)
              ELSE moved \in 0..Len(src)
           /\ (thr[t].kind = "download" /\ kind = "ok") => remoteFs.exists
           /\ remoteFs' =
                 IF /\ thr[t].kind = "upload"
                    /\ conn[thr[t].h].st = "open"
                    /\ (kind \in {"ok", "eof"} \/ moved > 0)
                 THEN Written(OpenWb(remoteFs), Received(src, moved))
                 ELSE remoteFs
           /\ localFs' =
                 IF thr[t].kind = "download"
                 THEN [localFs EXCEPT ![GuiPath] = Written(@, Received(src, moved))]
                 ELSE localFs
    /\ LET h == thr[t].h
           finished == kind = "done" \/ (kind = "ok" /\ Len(thr[t].cmds) = 1)
           c1 == CASE conn[h].st # "open" -> conn
                   [] kind = "eof" -> [conn EXCEPT ![h].st = "dead", ![h].out = 0]
                   [] OTHER -> [conn EXCEPT ![h].out = @ - 1]
           c2 == IF finished /\ thr[t].kind = "connect"
                 THEN [c1 EXCEPT ![h].auth = TRUE]
                 ELSE c1
       IN  /\ IF kind \in {"neg", "eof"}
              THEN Finish(t, FALSE, {})
              ELSE IF finished
              THEN Finish(t, TRUE, items)
              ELSE /\ thr' = [thr EXCEPT
                                ![t].phase = "send",
                                ![t].cmds = Tail(@),
                                ![t].h = IF thr[t].kind = "connect" THEN h ELSE 0]
                   /\ UNCHANGED queue
           /\ conn' = Collect(c2, ftp, Held(thr', ui))
    /\ UNCHANGED <<ftp, nextConn, ui, status, remoteTree>>
    /\ UNCHANGED <<last, prev, parseVars, viewVars>>

InitGui ==
    /\ InitService
    /\ last = NoCall
    /\ prev = NoCall
    /\ InitParseIdle
    /\ InitGuiIdle
    /\ InitViewIdle
    /\ InitFilesEmpty

NextGui ==
    \/ \E e \in BOOLEAN : GUI_connect_ftp(e)
    \/ GUI_disconnect_ftp
    \/ \E k \in ExchangeKinds : GUI_disconnect_reply(k)
    \/ GUI_refresh_remote_view
    \/ GUI_on_double_click
    \/ GUI_upload_file
    \/ GUI_download_file
    \/ GUI_run_callback
    \/ \E t \in Threads, ok \in BOOLEAN : Worker_open(t, ok)
    \/ \E t \in Threads : Worker_local_open_fails(t)
    \/ \E t \in Threads : Worker_send(t)
    \/ \E t \in Threads, k \in ExchangeKinds \cup {"done"},
          items \in SUBSET {"dir", "file"}, n \in 0..MaxBytes :
          Worker_recv(t, k, items, n)

SpecGui == InitGui /\ [][NextGui]_vars

(***************************************************************************)
(* Claims about the session, checked under Spec.                           *)
(***************************************************************************)

\* C1: a connect that fails at any step (open, greeting, USER, PASS) on a
\* disconnected service leaves it disconnected: is_connected is false and
\* the service retains no FTP object.
C1_FailedConnectLeavesDisconnected ==
    (last.op = "connect" /\ last.host # "" /\ ~last.pre /\ last.exc # "none")
        => (~is_connected /\ ftp = 0)

\* C2: after disconnect() on a connected session is_connected is false,
\* whatever the outcome of QUIT was (positive, negative, transport error).
C2_DisconnectClearsUnconditionally ==
    (last.op = "disconnect" /\ last.preAuth) => ~is_connected

\* C3: two disconnect() calls in succession, the first one on a logged-in
\* or on a disconnected session: neither raises, is_connected is false
\* after each, and the second one sends no command.
C3_DisconnectTwice ==
    (/\ prev.op = "disconnect"
     /\ last.op = "disconnect"
     /\ (prev.preAuth \/ ~prev.pre))
        => /\ prev.exc = "none"
           /\ last.exc = "none"
           /\ ~prev.post
           /\ ~last.post
           /\ last.sent = <<>>

\* C4: list_directory, upload_file and download_file on a service that is
\* not connected fail with NotConnectedError, send nothing and leave the
\* session disconnected.
C4_NotConnectedError ==
    (last.op \in {"list_directory", "upload_file", "download_file"} /\ ~last.pre)
        => /\ last.exc = "NotConnectedError"
           /\ last.sent = <<>>
           /\ ~is_connected

\* C8: when the control transport fails during an operation on a connected
\* (logged-in) session, is_connected is false once the failing operation has returned.
C8_TransportFailureDisconnects ==
    (/\ last.op \in {"list_directory", "upload_file", "download_file"}
     /\ last.preAuth
     /\ last.exc = "EOFError")
        => ~last.post

C15_EmptyHostRejected ==
    (last.op = "connect" /\ last.host = "" /\ ~last.pre)
        => /\ last.exc # "none"
           /\ last.sent = <<>>
           /\ \A h \in Handles : conn[h].st \notin {"open", "dead"}
           /\ ~is_connected

(***************************************************************************)
(* Claims about the transfers, checked under SpecFiles.                    *)
(***************************************************************************)

\* C14: round trip.  upload_file(L1, N) immediately followed by
\* download_file(N, L2) with L2 # L1, both returning normally, leaves L2
\* with exactly the bytes of L1, for every content of L1 (the empty one
\* included), and leaves L1 as it was.
C14_RoundTrip ==
    (/\ prev.op = "upload_file"
     /\ prev.exc = "none"
     /\ last.op = "download_file"
     /\ last.exc = "none"
     /\ last.path # prev.path)
        => /\ localFs[last.path].exists
           /\ localFs[last.path].data = prev.before.data
           /\ localFs[prev.path] = prev.before

\* a round trip of a file of two bytes onto a target that had other content
C14_Witness ==
    /\ prev.op = "upload_file"
    /\ prev.exc = "none"
    /\ last.op = "download_file"
    /\ last.exc = "none"
    /\ last.path # prev.path
    /\ Len(prev.before.data) = 2
    /\ last.before.exists
    /\ last.before.data # prev.before.data
    /\ localFs[last.path].data = prev.before.data

\* C19: upload_file opens the local file before it issues STOR: when the
\* file cannot be opened, upload_file raises without having written any
\* command, is_connected is what it was, and the remote object is what it
\* was.
C19_UploadOpenFailure ==
    (last.op = "upload_file" /\ last.exc = "OSError")
        => /\ last.sent = <<>>
           /\ last.post = last.pre
           /\ is_connected = last.pre
           /\ remoteFs = last.remote

\* an upload whose local file could not be opened, on a connected session
\* and with a remote object of two bytes in place
C19_Witness ==
    /\ last.op = "upload_file"
    /\ last.exc = "OSError"
    /\ last.preAuth
    /\ remoteFs.exists
    /\ Len(remoteFs.data) = 2

\* C20: download_file creates or truncates the local target before RETR
\* is sent and never removes or restores it: after a download that has
\* opened its target and then fails (no session, RETR refused, transport
\* lost) the target exists and holds exactly the bytes received, a prefix
\* of the remote content that may be empty; what it held before is gone.
C20_DownloadLeavesPartial ==
    (last.op = "download_file" /\ last.exc \notin {"none", "OSError"})
        => /\ localFs[last.path].exists
           /\ last.moved \in 0..Len(last.remote.data)
           /\ localFs[last.path].data = SubSeq(last.remote.data, 1, last.moved)
           /\ last.exc = "AttributeError" => (last.sent = <<>> /\ last.moved = 0)

\* a download that lost its transport after one of two bytes, onto a target
\* that held two bytes
C20_Witness ==
    /\ last.op = "download_file"
    /\ last.exc = "EOFError"
    /\ last.moved = 1
    /\ Len(last.remote.data) = 2
    /\ Len(last.before.data) = 2
    /\ Len(localFs[last.path].data) = 1

(***************************************************************************)
(* Claims about the listing parser, checked under SpecParse.               *)
(***************************************************************************)

\* the number of whitespace-separated tokens of a line, counted as the
\* positions where a token starts
TokenCount(line) ==
    Cardinality({i \in 1..Len(line) :
                    ~IsSpace(line[i]) /\ (i = 1 \/ IsSpace(line[i - 1]))})

\* the entry name of a listing line: its tokens from the 9th on
NameOfLine(line) ==
    LET parts == str_split(line) IN JoinSpace(SubSeq(parts, 9, Len(parts)))

\* the lines of the listing that are entries
EntryIndexes == {j \in 1..Len(lines) : TokenCount(lines[j]) >= 9}

\* C9: the returned entries are ordered case-insensitively by entry name:
\* for consecutive entries e1, e2, lower(e1.name) <= lower(e2.name).
C9_EntriesSortedByName ==
    parsePc = "done" =>
        \A i \in 1..(Len(result.items) - 1) :
            ~StrLess(str_lower(result.items[i + 1].name),
                     str_lower(result.items[i].name))

\* C10: the parser never raises because of a line's format, returns no
\* entry for a line with fewer than 9 tokens and exactly one entry for
\* each line with 9 or more tokens.
C10_OneEntryPerEntryLine ==
    parsePc = "done" =>
        /\ result.exc = "none"
        /\ Len(result.items) = Cardinality(EntryIndexes)
        /\ \A i \in 1..Len(result.items) :
              \E j \in EntryIndexes : NameOfLine(lines[j]) = result.items[i].name
        /\ \A j \in EntryIndexes :
              Cardinality({i \in 1..Len(result.items) :
                              result.items[i].name = NameOfLine(lines[j])})
              = Cardinality({k \in EntryIndexes :
                                NameOfLine(lines[k]) = NameOfLine(lines[j])})

\* a parsed listing that mixes entry lines with lines of fewer than 9 tokens
C10_Witness ==
    /\ parsePc = "done"
    /\ Cardinality(EntryIndexes) >= 2
    /\ \E j \in 1..Len(lines) : TokenCount(lines[j]) \in 1..8
    /\ Len(result.items) = 2

\* the accepted lines in the order in which the loop visits them; entry
\* number i of the result was made from accepted line number i
AcceptedLines == SelectSeq(SortOrder(lines), LAMBDA l : TokenCount(l) >= 9)

\* the first character of the permission string (the first token) is 'd'
PermIsDir(line) ==
    LET parts == str_split(line) IN parts # <<>> /\ parts[1][1] = 100

\* C11: for every accepted line the entry is a directory exactly when the
\* first character of the line's first whitespace-separated token is 'd',
\* and a file otherwise, also when the line begins with whitespace.
C11_KindFromPermission ==
    parsePc = "done" =>
        \A i \in 1..Len(AcceptedLines) :
            /\ i <= Len(result.items)
            /\ result.items[i].is_dir = PermIsDir(AcceptedLines[i])
            /\ result.items[i].type =
                  (IF PermIsDir(AcceptedLines[i]) THEN "Directorio" ELSE "Archivo")

\* C12: for every accepted line the size of the entry is the 5th token of
\* the line when the entry is a file and is empty when it is a directory:
\* no directory entry carries a size and no file entry lacks one.
C12_SizeOnlyForFiles ==
    parsePc = "done" =>
        \A i \in 1..Len(AcceptedLines) :
            /\ i <= Len(result.items)
            /\ IF result.items[i].is_dir
               THEN result.items[i].size = <<>>
               ELSE /\ result.items[i].size = str_split(AcceptedLines[i])[5]
                    /\ result.items[i].size # <<>>

\* a parsed listing with a directory entry and a file entry, the file
\* entry made from the line whose columns are separated by a tab
C12_Witness ==
    /\ parsePc = "done"
    /\ \E i \in 1..Len(result.items) :
          result.items[i].is_dir /\ result.items[i].size = <<>>
    /\ \E i \in 1..Len(result.items) :
          /\ ~result.items[i].is_dir
          /\ result.items[i].size = <<55>>
          /\ AcceptedLines[i][2] = 9

(***************************************************************************)
(* Claims about the threads of the GUI, checked under SpecGui.             *)
(***************************************************************************)

\* a session on which login succeeded before any other command was written
CleanSession(h) == conn[h].auth /\ ~conn[h].early

\* C5: commands and replies alternate on the control connection of a
\* logged-in session: no command is written while the reply to an earlier
\* one is outstanding.
C5_CommandReplyAlternation ==
    \A h \in Handles : CleanSession(h) => conn[h].out <= 1

\* the workers whose STOR or RETR has been written on FTP object h and has
\* not completed yet
TransfersInFlight(h) ==
    {t \in Threads :
        /\ thr[t].kind \in {"upload", "download"}
        /\ thr[t].phase = "recv"
        /\ thr[t].h = h
        /\ CleanSession(h)}

\* C6: at most one transfer is in flight per logged-in session: a second
\* upload or download is refused (SessionBusyError) while another one has
\* not finished.
C6_OneTransferPerSession ==
    \A h \in Handles : Cardinality(TransfersInFlight(h)) <= 1

\* C7: at most one live control session per client: no control transport
\* opened by an earlier connect stays open without being owned by the
\* service (a transport that disconnect_ftp is closing is not counted).
C7_OneLiveSession ==
    \A h \in Handles : (conn[h].st = "open" /\ ui.h # h) => ftp = h

\* the workers that run list_directory, upload_file or download_file, were
\* started on a logged-in session, and are about to use self.ftp
AboutToUse ==
    {t \in Threads :
        /\ thr[t].kind \in {"populate", "upload", "download"}
        /\ thr[t].clean
        /\ thr[t].phase = "send"}

\* C16: the connected-state precondition holds at the moment of use: no
\* worker that the GUI started on a connected service executes a step of
\* list_directory, upload_file or download_file that uses the session at a
\* time when the service is disconnected.
C16_ConnectedAtUse ==
    [][\A t \in AboutToUse : thr'[t] # thr[t] => is_connected]_vars

\* C17: every blocking FTP network operation that the GUI triggers runs on
\* a worker: the Tk main thread, which owns the presentation state, is
\* never inside a network call of a logged-in session.
C17_NoNetworkCallOnUi ==
    ~(ui.pc = "quit_recv" /\ CleanSession(ui.h))

\* C18: no worker thread changes presentation state (log widget, trees,
\* labels, current_remote_path): every such change is made by the Tk main
\* thread.
C18_OnlyUiWritesPresentation ==
    lastWriter = "ui"

\* no worker thread is running, no callback is scheduled and the main
\* thread is in no handler
Quiescent ==
    /\ \A t \in Threads : thr[t].kind = "idle"
    /\ queue = <<>>
    /\ ui.pc = "idle"

\* C22: in every quiescent state the status label and the button show
\* "connected" exactly when ftp_service.is_connected is true, so the toggle
\* performs the action its label shows.
C22_IndicatorAgreesWithService ==
    Quiescent => (status <=> is_connected)

\* C25: after disconnect_ftp has run the remote tree is empty and stays
\* empty until the next connect: while the service has no session, no
\* listing that was in flight or scheduled repopulates the tree.
C25_TreeEmptyWhileDisconnected ==
    ~is_connected => remoteTree = {}

(***************************************************************************)
(* SpecPath: the remote paths on_double_click computes, from every current *)
(* remote path of at most MaxDepth components, over at most MaxClicks      *)
(* double-clicks, on a server that enters every path it is asked for and   *)
(* reports it as its working directory.                                    *)
(***************************************************************************)
MaxDepth == 2
MaxClicks == 2

Slash == 47

\* str.split(sep): the pieces between the separators, empty ones included
RECURSIVE str_split_sep(_, _)
str_split_sep(s, sep) ==
    IF \A i \in 1..Len(s) : s[i] # sep
    THEN <<s>>
    ELSE LET i == CHOOSE j \in 1..Len(s) :
                      s[j] = sep /\ \A k \in 1..(j - 1) : s[k] # sep
         IN  <<SubSeq(s, 1, i - 1)>>
                 \o str_split_sep(SubSeq(s, i + 1, Len(s)), sep)

\* sep.join(parts)
RECURSIVE str_join(_, _)
str_join(parts, sep) ==
    IF parts = <<>> THEN <<>>
    ELSE IF Len(parts) = 1 THEN parts[1]
    ELSE parts[1] \o <<sep>> \o str_join(Tail(parts), sep)

ParentWithoutDefault(current_remote_path) ==
    LET parts == str_split_sep(current_remote_path, Slash)
    IN  str_join(SubSeq(parts, 1, Len(parts) - 1), Slash)

\* "/".join(self.current_remote_path.split('/')[:-1]) or "/"
ParentPath(current_remote_path) ==
    LET parts == str_split_sep(current_remote_path, Slash)
        joined == str_join(SubSeq(parts, 1, Len(parts) - 1), Slash)
    IN  IF joined = <<>> THEN <<Slash>> ELSE joined

\* f"{self.current_remote_path}/{item_id}" if self.current_remote_path != "/"
\* else f"/{item_id}"
ChildPath(current_remote_path, item_id) ==
    IF current_remote_path # <<Slash>>
    THEN current_remote_path \o <<Slash>> \o item_id
    ELSE <<Slash>> \o item_id

\* the row ".." that update_ui inserts above the entries
DotDot == <<46, 46>>

\* new_path of on_double_click on a row of the remote tree
new_path(current_remote_path, item_id) ==
    IF item_id = DotDot
    THEN ParentPath(current_remote_path)
    ELSE ChildPath(current_remote_path, item_id)

\* entry names: "a", "B", "c d" and "a.b"
EntryNames == {<<97>>, <<66>>, <<99, 32, 100>>, <<97, 46, 98>>}

RECURSIVE PathsOfDepth(_)
PathsOfDepth(n) ==
    IF n = 0 THEN {<<Slash>>}
    ELSE {ChildPath(p, e) : p \in PathsOfDepth(n - 1), e \in EntryNames}

\* "/" and the absolute paths without a trailing slash
RemotePaths == UNION {PathsOfDepth(n) : n \in 0..MaxDepth}

InitPath ==
    /\ InitService
    /\ last = NoCall
    /\ prev = NoCall
    /\ InitParseIdle
    /\ InitGuiIdle
    /\ InitFilesEmpty
    /\ nav = NavIdle
    /\ local = LocalIdle
    /\ navCalc \in {[start |-> p, path |-> p, clicks |-> <<>>] : p \in RemotePaths}

\* on_double_click on the row item_id of the remote tree; the listing of
\* new_path makes it the current remote path
DoubleClick(item_id) ==
    /\ Len(navCalc.clicks) < MaxClicks
    /\ navCalc' = [navCalc EXCEPT !.path = new_path(navCalc.path, item_id),
                                  !.clicks = Append(@, item_id)]
    /\ UNCHANGED <<ftp, conn, nextConn, last, prev, parseVars, guiVars, fileVars,
                   nav, local>>

NextPath ==
    \E item_id \in EntryNames \cup {DotDot} : DoubleClick(item_id)

SpecPath == InitPath /\ [][NextPath]_vars

\* C26: entering an entry and then double-clicking ".." leads back to the
\* path the navigation started from, the parent of a top-level directory is
\* "/", and no computed path is empty.
C26_NavigationRoundTrip ==
    /\ navCalc.path # <<>>
    /\ (/\ Len(navCalc.clicks) = 2
        /\ navCalc.clicks[1] \in EntryNames
        /\ navCalc.clicks[2] = DotDot) => navCalc.path = navCalc.start
    /\ (/\ Len(navCalc.clicks) = 1
        /\ navCalc.clicks[1] = DotDot
        /\ navCalc.start \in PathsOfDepth(1)) => navCalc.path = <<Slash>>

\* back at a path of two components after entering "c d" below it
C26_Witness ==
    /\ navCalc.clicks = <<<<99, 32, 100>>, DotDot>>
    /\ navCalc.start \in PathsOfDepth(2)
    /\ navCalc.path = navCalc.start

(***************************************************************************)
(* SpecLocal: populate_local_tree on the main thread, over at most         *)
(* MaxRequests requests, on a file system in which every listing of a      *)
(* directory may fail and the path "/gone" does not exist.  The stack      *)
(* holds the path of every invocation that has not returned.               *)
(***************************************************************************)
MaxRequests == 3
MaxCalls == 3

LocalDirs == {"/", "/home", "/home/docs"}

Gone == "/gone"

\* os.path.dirname
get_parent_dir(path) ==
    CASE path = "/home/docs" -> "/home"
      [] OTHER -> "/"

\* the names os.listdir gives for a directory
Listdir(path) ==
    CASE path = "/" -> {"home"}
      [] path = "/home" -> {"docs", "f.txt"}
      [] OTHER -> {}

\* the rows of the local tree after lines 206-213 for the directory path
LocalRows(path) ==
    (IF get_parent_dir(path) # path THEN {".."} ELSE {}) \cup Listdir(path)

RetriesAlways(path) ==
    TRUE

\* if path != self.file_service.get_user_home():
Retries(path) ==
    path # get_user_home

InitLocal ==
    /\ InitService
    /\ last = NoCall
    /\ prev = NoCall
    /\ InitParseIdle
    /\ InitGuiIdle
    /\ InitFilesEmpty
    /\ nav = NavIdle
    /\ navCalc = CalcIdle
    /\ local = LocalIdle

LocalFrame ==
    UNCHANGED <<ftp, conn, nextConn, last, prev, parseVars, guiVars, fileVars,
                nav, navCalc>>

\* populate_local_tree(path) is called by __init__, by a double-click or by
\* the callback of a download: lines 198-199
populate_local_tree(path, isNone) ==
    /\ local.pc = "idle"
    /\ local.requests < MaxRequests
    /\ local' = [local EXCEPT
           !.pc = "try",
           !.stack = <<IF isNone THEN local.current_local_path ELSE path>>,
           !.attempts = <<>>,
           !.errors = 0,
           !.requests = @ + 1]
    /\ LocalFrame

\* lines 201-213 of the innermost invocation: the listing succeeds, the
\* view is rebuilt and every invocation returns, or an exception is raised
LocalTry(ok) ==
    /\ local.pc = "try"
    /\ LET path == local.stack[Len(local.stack)]
       IN  /\ ok => path \in LocalDirs
           /\ local' = IF ok
                  THEN [local EXCEPT !.pc = "idle",
                                     !.stack = <<>>,
                                     !.current_local_path = path,
                                     !.local_tree = LocalRows(path),
                                     !.attempts = Append(@, path)]
                  ELSE [local EXCEPT !.pc = "except",
                                     !.attempts = Append(@, path)]
    /\ LocalFrame

\* lines 214-218: log, showerror, and the call with the home directory or
\* the return of every invocation
LocalExcept ==
    /\ local.pc = "except"
    /\ Len(local.stack) < MaxCalls
    /\ LET path == local.stack[Len(local.stack)]
       IN  local' = IF Retries(path)
                  THEN [local EXCEPT !.pc = "try",
                                     !.stack = Append(@, get_user_home),
                                     !.errors = @ + 1]
                  ELSE [local EXCEPT !.pc = "idle",
                                     !.stack = <<>>,
                                     !.errors = @ + 1]
    /\ LocalFrame

NextLocal ==
    \/ \E path \in LocalDirs \cup {Gone} : populate_local_tree(path, FALSE)
    \/ populate_local_tree(Gone, TRUE)
    \/ \E ok \in BOOLEAN : LocalTry(ok)
    \/ LocalExcept

\* the main thread runs a handler to its end: the listing returns or raises
\* and the error dialog is dismissed
SpecLocal ==
    /\ InitLocal
    /\ [][NextLocal]_vars
    /\ WF_vars(\E ok \in BOOLEAN : LocalTry(ok))
    /\ WF_vars(LocalExcept)

C21_AtMostOneRetry ==
    /\ Len(local.attempts) <= 2
    /\ Len(local.stack) <= 2
    /\ Len(local.attempts) = 2 =>
           /\ local.attempts[1] # get_user_home
           /\ local.attempts[2] = get_user_home
    /\ local.errors <= 2

\* C21: populate_local_tree terminates: a failed listing is retried at
\* most once, with the home directory, and a failed listing of the home
\* directory is not retried.
C21_PopulateLocalTerminates ==
    /\ []C21_AtMostOneRetry
    /\ (local.pc # "idle") ~> (local.pc = "idle")

\* the requested path and then the home directory failed, and the call
\* has returned
C21_Witness ==
    /\ local.pc = "idle"
    /\ local.attempts = <<Gone, get_user_home>>
    /\ local.errors = 2

(***************************************************************************)
(* SpecNav: the remote view of FTPClientGUI on one session whose login     *)
(* succeeded, in the build of gui.py and in the build of main.py.  The     *)
(* server has the directories "/" and "/d"; "/" lists the directory "d"    *)
(* and the file "f", "/d" lists the file "f".  Every command is answered   *)
(* before the next one is sent, a refused command is answered negatively   *)
(* and leaves the session usable.  The worker threads run list_directory   *)
(* command by command, and the callbacks given to master.after run on the  *)
(* main thread in the order they were scheduled.                           *)
(***************************************************************************)
Builds == {"gui.py", "main.py"}

DirD == <<100>>
FileF == <<102>>

ServerDirs == {<<Slash>>, ChildPath(<<Slash>>, DirD)}

\* the entries list_directory returns for the working directory, in order
ServerListing(dir) ==
    IF dir = <<Slash>> THEN <<DirD, FileF>> ELSE <<FileF>>

\* "Directorio" in item_type
IsDirRow(iid) == iid \in {DotDot, DirD}

\* remote_tree.insert row by row: an iid already in the tree raises TclError
\* and ends the callback
RECURSIVE InsertRows(_, _)
InsertRows(tree, rows) ==
    IF rows = <<>> THEN [tree |-> tree, tclError |-> FALSE]
    ELSE IF Head(rows) \in tree THEN [tree |-> tree, tclError |-> TRUE]
    ELSE InsertRows(tree \cup {Head(rows)}, Tail(rows))

NavFrame ==
    UNCHANGED <<ftp, conn, nextConn, last, prev, parseVars, guiVars, fileVars,
                navCalc, local>>

NavFree == {t \in Threads : nav.w[t].pc = "idle"}

\* populate_remote_tree(path) on a connected client: the tree is cleared
\* and a thread running do_populate is started
NavPopulate(n, path) ==
    LET t == CHOOSE u \in NavFree : TRUE
    IN  [n EXCEPT !.tree = {}, !.tclError = FALSE,
                  !.w[t] = [pc |-> "cwd", op |-> "list", path |-> path,
                            got |-> <<>>]]

\* after update_ui_on_connect: the first listing, of "/", has been requested
InitNav ==
    /\ InitService
    /\ last = NoCall
    /\ prev = NoCall
    /\ InitParseIdle
    /\ InitGuiIdle
    /\ InitFilesEmpty
    /\ navCalc = CalcIdle
    /\ local = LocalIdle
    /\ nav \in {[NavIdle EXCEPT !.build = b, !.cwd = d,
                    !.w[1] = [pc |-> "cwd", op |-> "list", path |-> <<Slash>>,
                              got |-> <<>>]] : b \in Builds, d \in ServerDirs}

\* the button "Refrescar" of gui.py
Nav_refresh_remote_view ==
    /\ nav.build = "gui.py"
    /\ NavFree # {}
    /\ nav' = NavPopulate(nav, nav.current_remote_path)
    /\ NavFrame

Nav_on_double_click(item_id) ==
    /\ item_id \in nav.tree
    /\ IsDirRow(item_id)
    /\ NavFree # {}
    /\ nav' = NavPopulate(nav, new_path(nav.current_remote_path, item_id))
    /\ NavFrame

\* upload_file and download_file of a file row: a thread running do_upload
\* or do_download is started
Nav_transfer(op) ==
    /\ op = "download" => FileF \in nav.tree
    /\ NavFree # {}
    /\ LET t == CHOOSE u \in NavFree : TRUE
       IN  nav' = [nav EXCEPT !.w[t] = [pc |-> "transfer", op |-> op,
                                        path |-> FileF, got |-> <<>>]]
    /\ NavFrame

NavCallback(kind, from, items) == [kind |-> kind, from |-> from, items |-> items]

\* the except block of a worker: master.after(0, showerror) and the thread
\* ends
NavRaise(t) ==
    [nav EXCEPT !.w[t] = NavNoWorker,
                !.q = Append(@, NavCallback("showerror", nav.w[t].op, <<>>))]

\* self.ftp.cwd(path), line 21 of list_directory
Nav_cwd(t, ok) ==
    /\ nav.w[t].pc = "cwd"
    /\ ok => nav.w[t].path \in ServerDirs
    /\ ~ok => Len(nav.q) < MaxQueue
    /\ nav' = IF ok
              THEN [nav EXCEPT !.cwd = nav.w[t].path, !.w[t].pc = "pwd"]
              ELSE NavRaise(t)
    /\ NavFrame

\* current_path = self.ftp.pwd(), line 22
Nav_pwd(t, ok) ==
    /\ nav.w[t].pc = "pwd"
    /\ ~ok => Len(nav.q) < MaxQueue
    /\ nav' = IF ok
              THEN [nav EXCEPT !.w[t].got = nav.cwd, !.w[t].pc = "dir"]
              ELSE NavRaise(t)
    /\ NavFrame

\* self.ftp.dir(lines.append) and the rest of list_directory, then lines
\* 232-243 of do_populate: current_remote_path is assigned and update_ui is
\* scheduled with the items
Nav_dir(t, ok) ==
    /\ nav.w[t].pc = "dir"
    /\ Len(nav.q) < MaxQueue
    /\ nav' = IF ok
              THEN [nav EXCEPT
                       !.current_remote_path = nav.w[t].got,
                       !.w[t] = NavNoWorker,
                       !.q = Append(@, NavCallback("update_ui", "list",
                                                   ServerListing(nav.cwd)))]
              ELSE NavRaise(t)
    /\ NavFrame

\* what do_upload gives to master.after when upload_file returned:
\* gui.py line 300, main.py line 419
UploadSchedules(build) ==
    IF build = "gui.py" THEN "refresh_remote_view" ELSE "populate_local_tree"

\* do_upload and do_download: the transfer returns or raises
Nav_transfer_ends(t, ok) ==
    /\ nav.w[t].pc = "transfer"
    /\ Len(nav.q) < MaxQueue
    /\ nav' = IF ok
              THEN [nav EXCEPT
                       !.w[t] = NavNoWorker,
                       !.q = Append(@, NavCallback(
                                 IF nav.w[t].op = "upload"
                                 THEN UploadSchedules(nav.build)
                                 ELSE "populate_local_tree",
                                 nav.w[t].op, <<>>))]
              ELSE NavRaise(t)
    /\ NavFrame

\* the rows update_ui inserts: ".." unless the current remote path is "/",
\* then the items
UpdateUiRows(n, items) ==
    (IF n.current_remote_path # <<Slash>> THEN <<DotDot>> ELSE <<>>) \o items

\* the main loop runs the callback scheduled first
Nav_run_callback ==
    /\ nav.q # <<>>
    /\ LET cb == Head(nav.q)
           n == [nav EXCEPT !.q = Tail(@)]
           ins == InsertRows(nav.tree, UpdateUiRows(nav, cb.items))
       IN  CASE cb.kind = "update_ui" ->
                  nav' = [n EXCEPT !.label = nav.current_remote_path,
                                   !.tree = ins.tree,
                                   !.tclError = @ \/ ins.tclError]
             [] cb.kind = "refresh_remote_view" ->
                  /\ NavFree # {}
                  /\ nav' = [NavPopulate(n, nav.current_remote_path) EXCEPT
                                !.after = [op |-> cb.from,
                                           requested |-> "remote"]]
             [] cb.kind = "populate_local_tree" ->
                  nav' = [n EXCEPT !.after = [op |-> cb.from,
                                              requested |-> "local"]]
             [] OTHER ->
                  nav' = IF cb.from = "list" THEN n
                         ELSE [n EXCEPT !.after = [op |-> "failed",
                                                   requested |-> "none"]]
    /\ NavFrame

NextNav ==
    \/ Nav_refresh_remote_view
    \/ \E item_id \in {DotDot, DirD, FileF} : Nav_on_double_click(item_id)
    \/ \E op \in {"upload", "download"} : Nav_transfer(op)
    \/ \E t \in Threads, ok \in BOOLEAN : Nav_cwd(t, ok)
    \/ \E t \in Threads, ok \in BOOLEAN : Nav_pwd(t, ok)
    \/ \E t \in Threads, ok \in BOOLEAN : Nav_dir(t, ok)
    \/ \E t \in Threads, ok \in BOOLEAN : Nav_transfer_ends(t, ok)
    \/ Nav_run_callback

SpecNav == InitNav /\ [][NextNav]_vars

\* no thread is running list_directory
NoListingInFlight ==
    \A t \in Threads : nav.w[t].op # "list"

\* C23: whenever no remote listing is in flight, current_remote_path is the
\* working directory of the session on the server.
C23_PathIsServerCwd ==
    NoListingInFlight => nav.current_remote_path = nav.cwd

\* no worker thread is running and no callback is scheduled
NavQuiescent ==
    /\ \A t \in Threads : nav.w[t].pc = "idle"
    /\ nav.q = <<>>

\* the rows of the listing of the directory dir
RowsOfListing(dir) ==
    (IF dir # <<Slash>> THEN {DotDot} ELSE {})
        \cup {ServerListing(dir)[i] : i \in 1..Len(ServerListing(dir))}

\* C24: once all workers and callbacks have finished, the remote tree shows
\* the rows of the listing of the path in the label and nothing else (or
\* nothing, after a listing that failed), and no insertion has failed on an
\* item id already in the tree.
C24_TreeIsOneListing ==
    NavQuiescent =>
        /\ ~nav.tclError
        /\ nav.tree = {} \/ nav.tree = RowsOfListing(nav.label)

\* C27: the callback of a successful upload requests a listing of the
\* current remote directory, the callback of a successful download
\* refreshes the local view, and the callback of a failed transfer
\* requests neither.
C27_TransferRefreshesView ==
    /\ nav.after.op = "upload" => nav.after.requested = "remote"
    /\ nav.after.op = "download" => nav.after.requested = "local"
    /\ nav.after.op = "failed" => nav.after.requested = "none"

====
